---- MODULE Spec2Model ----
(***************************************************************************)
(* LabWhere domain model and persistence layer: LocationType, Location and *)
(* Labware, the statements they issue on an SQLite connection, and the     *)
(* results they hand back to the caller.                                   *)
(*                                                                         *)
(* Strings that the code transforms (location names, location barcodes)    *)
(* are sequences of one-character strings, so that trim / replace /        *)
(* to_lowercase / format! are computed.  Option<String> is a sequence of   *)
(* length 0 (None, SQL NULL) or 1 (Some).                                  *)
(***************************************************************************)
EXTENDS Integers, Sequences, FiniteSets, TLC

VARIABLES
    location_types,      \* rows of table location_types, in insertion order
    locations,           \* rows of table locations
    labwares,            \* rows of table labwares
    last_insert_rowid,   \* the connection's sqlite3_last_insert_rowid
    result,              \* what the last operation handed to its caller
    returned_locations,  \* the entities Location::create has returned as Ok
    unknown_cell,        \* the Lazy cell behind UNKNOWN_LOCATION
    tasks                \* concurrently running tasks: position and locals of each

vars ==
    <<location_types, locations, labwares, last_insert_rowid, result, returned_locations,
      unknown_cell, tasks>>

\* What the operations on one connection, called one after the other, leave alone.
concurrent == <<unknown_cell, tasks>>

tables == <<location_types, locations, labwares>>

----------------------------------------------------------------------------
(* Bounds of the model *)

MaxTypes == 1

MaxLocations == 2

MaxLabwares == 1

\* Threads that access UNKNOWN_LOCATION, and accesses made by each.
NumThreads == 2

MaxCalls == 2

\* Length of the names the pure functions are applied to exhaustively.
MaxFnLen == 2

(* Program constants *)

UnknownId == 999

UnknownTypeId == 1

MinNameLen == 1

MaxNameLen == 60

----------------------------------------------------------------------------
(* Inputs *)

\* Location names offered by callers: two valid names that differ by case,
\* by surrounding whitespace and by space versus hyphen, and one name the
\* validator rejects.
Names ==
    { <<"a", " ", "b">>,
      <<" ", "A", "-", "B", " ">>,
      <<"a", "+">> }

TypeNames == {"Freezer"}

\* Labware barcodes are supplied by the caller and stored as they are.
LabwareBarcodes == {"lw-1"}

\* A barcode no labware row carries.
AbsentLabwareBarcode == "lw-x"

\* The store fails no statement of an operation (0), or its first or its
\* second statement (connection lost, database busy, disk full).
StoreFailures == 0..2

\* Ids a caller may pass: an id names a row only once that row was inserted.
TypeIdInputs == 1..MaxTypes

LocationIdInputs == (1..MaxLocations) \cup {UnknownId}

LabwareIdInputs == 1..MaxLabwares

\* A barcode no location row can carry.
AbsentBarcode == <<"l", "w", "-", "x">>

----------------------------------------------------------------------------
(* Characters *)

\* char::is_whitespace and the regex class \s: the Unicode White_Space
\* property.  "U+00A0" stands for the no-break space, one character.
Whitespace == {" ", "\t", "U+00A0"}

Lower ==
    <<"a", "b", "c", "d", "e", "f", "g", "h", "i", "j", "k", "l", "m",
      "n", "o", "p", "q", "r", "s", "t", "u", "v", "w", "x", "y", "z">>

Upper ==
    <<"A", "B", "C", "D", "E", "F", "G", "H", "I", "J", "K", "L", "M",
      "N", "O", "P", "Q", "R", "S", "T", "U", "V", "W", "X", "Y", "Z">>

Digits == {"0", "1", "2", "3", "4", "5", "6", "7", "8", "9"}

\* The ASCII range is not all of \w: the regex crate's \w is Unicode-aware.
\* "U+00E9" stands for the letter e with acute accent, one character.
WordChars ==
    {Lower[i] : i \in 1..Len(Lower)} \cup {Upper[i] : i \in 1..Len(Upper)}
        \cup Digits \cup {"_"} \cup {"U+00E9"}

\* Bytes of a character in UTF-8.
len_utf8(c) == IF c \in {"U+00A0", "U+00E9"} THEN 2 ELSE 1

RECURSIVE str_len(_)
\* String::len: the length in bytes.
str_len(s) == IF s = <<>> THEN 0 ELSE len_utf8(Head(s)) + str_len(Tail(s))

LowerOf ==
    [c \in {Upper[i] : i \in 1..Len(Upper)} |->
        Lower[CHOOSE i \in 1..Len(Upper) : Upper[i] = c]]

to_lowercase_char(c) == IF c \in DOMAIN LowerOf THEN LowerOf[c] ELSE c

DigitChar(d) ==
    CASE d = 0 -> "0" [] d = 1 -> "1" [] d = 2 -> "2" [] d = 3 -> "3"
      [] d = 4 -> "4" [] d = 5 -> "5" [] d = 6 -> "6" [] d = 7 -> "7"
      [] d = 8 -> "8" [] OTHER -> "9"

RECURSIVE Decimal(_)
\* Display of an unsigned integer, as format!("{}", id) prints it.
Decimal(n) ==
    IF n < 10 THEN <<DigitChar(n)>>
    ELSE Decimal(n \div 10) \o <<DigitChar(n % 10)>>

RECURSIVE trim_start(_)
trim_start(s) ==
    IF s # <<>> /\ Head(s) \in Whitespace THEN trim_start(Tail(s)) ELSE s

RECURSIVE trim_end(_)
trim_end(s) ==
    IF s # <<>> /\ s[Len(s)] \in Whitespace
    THEN trim_end(SubSeq(s, 1, Len(s) - 1))
    ELSE s

\* Only the leading whitespace removed.
trim_leading_only(s) == trim_start(s)

trim(s) == trim_end(trim_start(s))

\* str::replace(" ", "-")
replace_space(s) == [i \in 1..Len(s) |-> IF s[i] = " " THEN "-" ELSE s[i]]

to_lowercase(s) == [i \in 1..Len(s) |-> to_lowercase_char(s[i])]

\* `id as u32` on a rowid: the rowids of this model are in 1..2^31-1, where
\* the cast from i64 keeps the value.
AsU32(n) == IF n >= 0 THEN n ELSE n + 2147483647 + 2147483647 + 2

----------------------------------------------------------------------------
(* Location: pure parts *)

\* (1..=60).contains(&name.len()) and a match of \A[\w\-\s()]+\z
validate_name(name) ==
    /\ str_len(name) >= MinNameLen
    /\ str_len(name) <= MaxNameLen
    /\ \A i \in 1..Len(name) :
          name[i] \in WordChars \cup Whitespace \cup {"-", "(", ")"}

\* The barcode without the row id: the slug alone.
barcode_text_without_id(name, id) ==
    <<"l", "w", "-">> \o to_lowercase(replace_space(trim(name)))

\* format!("lw-{}-{}", name.trim().replace(" ", "-").to_lowercase(), id)
barcode_text(name, id) ==
    <<"l", "w", "-">> \o to_lowercase(replace_space(trim(name))) \o <<"-">> \o Decimal(id)

\* Location::create_barcode: the entity after self.barcode = Some(barcode).
create_barcode(location) ==
    [location EXCEPT !.barcode = <<barcode_text(location.name, location.id)>>]

\* Location::new: Ok(entity) or Err(NameFormatError).
Location_new(id, name, location_type_id, barcode) ==
    IF ~validate_name(name)
    THEN [ok |-> FALSE]
    ELSE [ok |-> TRUE,
          value |-> [id |-> id, name |-> name, barcode |-> barcode,
                     location_type_id |-> location_type_id]]

\* UNKNOWN_LOCATION: the value the Lazy initialiser builds.
UNKNOWN_LOCATION ==
    Location_new(UnknownId, <<"U", "N", "K", "N", "O", "W", "N">>, UnknownTypeId,
                 <<<<"l", "w", "-", "u", "n", "k", "n", "o", "w", "n", "-", "9", "9", "9">>>>)

\* The given location ignored.
Labware_new_always_unknown(id, barcode, location) ==
    [id |-> id, barcode |-> barcode, location_id |-> UNKNOWN_LOCATION.value.id]

\* Labware::new; location is an Option: <<>> or <<entity>>, and
\* unwrap_or(&UNKNOWN_LOCATION) reads the initialised sentinel.
Labware_new(id, barcode, location) ==
    [id |-> id, barcode |-> barcode,
     location_id |-> IF location = <<>> THEN UNKNOWN_LOCATION.value.id ELSE location[1].id]

----------------------------------------------------------------------------
(* The store: rows, rowids, constraints, single-row fetches *)

\* The largest element of a non-empty set of integers.
MaxOf(S) == CHOOSE x \in S : \A y \in S : y <= x

RECURSIVE MaxRowid(_, _, _)
\* The largest rowid among rows[lo..hi], lo <= hi.
MaxRowid(rows, lo, hi) ==
    IF lo = hi THEN rows[lo].id
    ELSE LET mid == (lo + hi) \div 2
             low == MaxRowid(rows, lo, mid)
             high == MaxRowid(rows, mid + 1, hi)
         IN  IF low >= high THEN low ELSE high

\* The rowid SQLite gives the next row of an INTEGER PRIMARY KEY table:
\* one more than the largest rowid in the table.
NextRowid(rows) ==
    IF rows = <<>> THEN 1 ELSE MaxRowid(rows, 1, Len(rows)) + 1

\* locations.location_type_id REFERENCES location_types(id)
LocationTypeFK(location_type_id) ==
    \E i \in 1..Len(location_types) : location_types[i].id = location_type_id

\* A labwares table without the reference to locations.
LabwareLocationFK_undeclared(location_id) == TRUE

\* labwares.location_id REFERENCES locations(id)
LabwareLocationFK(location_id) ==
    \E i \in 1..Len(locations) : locations[i].id = location_id

\* execute() of an INSERT or UPDATE: the store's verdict on the statement.
execute(store_ok, constraints_ok) ==
    IF ~store_ok THEN [ok |-> FALSE, cause |-> "Io"]
    ELSE IF ~constraints_ok THEN [ok |-> FALSE, cause |-> "Constraint"]
    ELSE [ok |-> TRUE, cause |-> "None"]

\* fetch_one on the rows a SELECT yields, in table order.
fetch_one(rows, store_ok) ==
    IF ~store_ok THEN [ok |-> FALSE, cause |-> "Io"]
    ELSE IF rows = <<>> THEN [ok |-> FALSE, cause |-> "RowNotFound"]
    ELSE [ok |-> TRUE, row |-> Head(rows)]

\* SELECT * FROM locations WHERE id = ?
SelectLocationById(rows, id) ==
    LET Test(r) == r.id = id IN SelectSeq(rows, Test)

\* SELECT * FROM locations WHERE barcode = ?   (NULL never equals a value)
SelectLocationByBarcode(rows, barcode) ==
    LET Test(r) == r.barcode = <<barcode>> IN SelectSeq(rows, Test)

\* SELECT * FROM labwares WHERE barcode = ?
SelectLabwareByBarcode(rows, barcode) ==
    LET Test(r) == r.barcode = barcode IN SelectSeq(rows, Test)

\* The UPDATE matching no row.
UpdateLocationBarcode_no_row(rows, barcode, id) == rows

\* The UPDATE without its WHERE clause.
UpdateLocationBarcode_all_rows(rows, barcode, id) ==
    [i \in 1..Len(rows) |-> [rows[i] EXCEPT !.barcode = <<barcode>>]]

\* UPDATE locations SET barcode = ? WHERE id = ?
UpdateLocationBarcode(rows, barcode, id) ==
    [i \in 1..Len(rows) |->
        IF rows[i].id = id THEN [rows[i] EXCEPT !.barcode = <<barcode>>] ELSE rows[i]]

\* The UPDATE without its WHERE clause.
UpdateLabwareLocation_all_rows(rows, location_id, id) ==
    [i \in 1..Len(rows) |-> [rows[i] EXCEPT !.location_id = location_id]]

\* UPDATE labwares SET location_id = ? WHERE id = ?
UpdateLabwareLocation(rows, location_id, id) ==
    [i \in 1..Len(rows) |->
        IF rows[i].id = id THEN [rows[i] EXCEPT !.location_id = location_id] ELSE rows[i]]

NoValue == <<>>

Outcome(op, status, cause, arg, value) ==
    [op |-> op, status |-> status, cause |-> cause, arg |-> arg, value |-> value]

----------------------------------------------------------------------------
(* Operations *)

\* Lazy::new(..): nothing is built before the first access.
LazyNew == [state |-> "Incomplete", value |-> <<>>, inits |-> 0]

\* init_db: the schema is loaded into an empty database.
Init ==
    /\ location_types = <<>>
    /\ locations = <<>>
    /\ labwares = <<>>
    /\ last_insert_rowid = 0
    /\ result = Outcome("init", "Ok", "None", NoValue, NoValue)
    /\ returned_locations = {}
    /\ unknown_cell = LazyNew
    /\ tasks = <<>>

\* LocationType::create
LocationTypeCreate ==
    \E name \in TypeNames, insert_ok \in BOOLEAN :
        /\ Len(location_types) < MaxTypes
        /\ LET id == NextRowid(location_types)
               arg == [name |-> name]
           IN  IF ~insert_ok
               THEN /\ result' = Outcome("LocationType::create", "Err", "Io", arg, NoValue)
                    /\ UNCHANGED <<location_types, last_insert_rowid>>
               ELSE /\ location_types' = Append(location_types, [id |-> id, name |-> name])
                    /\ last_insert_rowid' = id
                    /\ result' = Outcome("LocationType::create", "Ok", "None", arg,
                                          [id |-> AsU32(id), name |-> name])
        /\ UNCHANGED <<locations, labwares, returned_locations>>
        /\ UNCHANGED concurrent

\* Location::create after its INSERT was given rowid id: the entity is
\* constructed (unwrap), its barcode computed and written to the row.
Location_create_after_insert(name, location_type_id, id, inserted, updated) ==
    LET arg == [name |-> name, location_type_id |-> location_type_id]
        constructed == Location_new(AsU32(id), name, location_type_id, <<>>)
    IN  IF ~constructed.ok
        THEN \* .unwrap() on Err(NameFormatError)
             /\ locations' = inserted
             /\ result' = Outcome("Location::create", "Panic", "InvalidName", arg, NoValue)
             /\ UNCHANGED returned_locations
        ELSE LET location == create_barcode(constructed.value)
                 barcode == location.barcode[1]
             IN  IF ~updated.ok
                 THEN /\ locations' = inserted
                      /\ result' = Outcome("Location::create", "Err", updated.cause, arg, NoValue)
                      /\ UNCHANGED returned_locations
                 ELSE /\ locations' = UpdateLocationBarcode(inserted, barcode, id)
                      /\ result' = Outcome("Location::create", "Ok", "None", arg, location)
                      /\ returned_locations' = returned_locations \cup {location}

\* Location::create with a name of names, while the table has fewer than cap rows
Location_create(cap, names) ==
    /\ Len(locations) < cap
    /\ \E name \in names, location_type_id \in TypeIdInputs, failing \in StoreFailures :
        /\ LET id == NextRowid(locations)
               arg == [name |-> name, location_type_id |-> location_type_id]
               row == [id |-> id, name |-> name, barcode |-> <<>>,
                       location_type_id |-> location_type_id]
               executed == execute(failing # 1, LocationTypeFK(location_type_id))
           IN  IF ~executed.ok
               THEN /\ result' = Outcome("Location::create", "Err", executed.cause, arg, NoValue)
                    /\ UNCHANGED <<locations, last_insert_rowid, returned_locations>>
               ELSE /\ last_insert_rowid' = id
                    /\ Location_create_after_insert(name, location_type_id, id,
                                                    Append(locations, row),
                                                    execute(failing # 2, TRUE))
        /\ UNCHANGED <<location_types, labwares>>
        /\ UNCHANGED concurrent

LocationCreate == Location_create(MaxLocations, Names)

\* The lookup handing the store's error to the caller as it is.
find_result_raw(op, arg, fetched) ==
    IF fetched.ok
    THEN Outcome(op, "Ok", "None", arg, fetched.row)
    ELSE Outcome(op, "Err", fetched.cause, arg, NoValue)

\* The match in Location::find_by_barcode / Labware::find_by_barcode.
find_result(op, arg, fetched) ==
    IF fetched.ok
    THEN Outcome(op, "Ok", "None", arg, fetched.row)
    ELSE Outcome(op, "NotFoundError", fetched.cause, arg, NoValue)

\* Location::find_by_barcode
LocationFindByBarcode ==
    \E barcode \in {locations[i].barcode[1] :
                        i \in {j \in 1..Len(locations) : locations[j].barcode # <<>>}}
                    \cup {AbsentBarcode},
       select_ok \in BOOLEAN :
        /\ result' = find_result("Location::find_by_barcode", [barcode |-> barcode],
                                 fetch_one(SelectLocationByBarcode(locations, barcode), select_ok))
        /\ UNCHANGED <<location_types, locations, labwares, last_insert_rowid, returned_locations>>
        /\ UNCHANGED concurrent

\* Labware::create falling back to the unknown location when a statement fails.
Labware_create_outcome_defaulting(barcode, location_id, id, executed, fetched) ==
    LET arg == [barcode |-> barcode, location_id |-> location_id]
    IN  IF executed.ok /\ fetched.ok
        THEN Outcome("Labware::create", "Ok", "None", arg,
                     Labware_new(AsU32(id), barcode, <<fetched.row>>))
        ELSE Outcome("Labware::create", "Ok", "None", arg,
                     Labware_new(AsU32(id), barcode, <<>>))

\* Labware::create after its statements: each `?` hands the store's error to
\* the caller, otherwise the entity is built from the fetched location.
Labware_create_outcome(barcode, location_id, id, executed, fetched) ==
    LET arg == [barcode |-> barcode, location_id |-> location_id]
    IN  IF ~executed.ok
        THEN Outcome("Labware::create", "Err", executed.cause, arg, NoValue)
        ELSE IF ~fetched.ok
        THEN Outcome("Labware::create", "Err", fetched.cause, arg, NoValue)
        ELSE Outcome("Labware::create", "Ok", "None", arg,
                     Labware_new(AsU32(id), barcode, <<fetched.row>>))

\* Labware::create with a barcode of barcodes, while the table has fewer than
\* cap rows
Labware_create(cap, barcodes) ==
    /\ Len(labwares) < cap
    /\ \E barcode \in barcodes, location_id \in LocationIdInputs,
       failing \in StoreFailures :
        /\ LET id == NextRowid(labwares)
               row == [id |-> id, barcode |-> barcode, location_id |-> location_id]
               executed == execute(failing # 1, LabwareLocationFK(location_id))
               fetched == fetch_one(SelectLocationById(locations, location_id), failing # 2)
           IN  /\ IF executed.ok
                  THEN /\ labwares' = Append(labwares, row)
                       /\ last_insert_rowid' = id
                  ELSE UNCHANGED <<labwares, last_insert_rowid>>
               /\ result' = Labware_create_outcome(barcode, location_id, id, executed, fetched)
        /\ UNCHANGED <<location_types, locations, returned_locations>>
        /\ UNCHANGED concurrent

LabwareCreate == Labware_create(MaxLabwares, LabwareBarcodes)

\* Labware::update after its statements; id is the connection's
\* last_insert_rowid() read from the UPDATE's query result.
Labware_update_outcome(labware, id, executed, fetched) ==
    IF ~executed.ok
    THEN Outcome("Labware::update", "Err", executed.cause, labware, NoValue)
    ELSE IF ~fetched.ok
    THEN Outcome("Labware::update", "Err", fetched.cause, labware, NoValue)
    ELSE Outcome("Labware::update", "Ok", "None", labware,
                 Labware_new(AsU32(id), labware.barcode, <<fetched.row>>))

\* Labware::update of a labware whose id is one of ids and whose barcode is
\* one of barcodes
Labware_update(ids, barcodes) ==
    \E lw_id \in ids, barcode \in barcodes,
       location_id \in LocationIdInputs, failing \in StoreFailures :
        LET labware == [id |-> lw_id, barcode |-> barcode, location_id |-> location_id]
            \* the constraint is checked on the rows the UPDATE changes
            touched == \E i \in 1..Len(labwares) : labwares[i].id = labware.id
            executed == execute(failing # 1,
                                touched => LabwareLocationFK(labware.location_id))
            fetched == fetch_one(SelectLocationById(locations, labware.location_id),
                                 failing # 2)
        IN  /\ IF executed.ok
               THEN labwares' = UpdateLabwareLocation(labwares, labware.location_id, labware.id)
               ELSE UNCHANGED labwares
            /\ result' = Labware_update_outcome(labware, last_insert_rowid, executed, fetched)
            /\ UNCHANGED <<location_types, locations, last_insert_rowid, returned_locations>>
            /\ UNCHANGED concurrent

LabwareUpdate == Labware_update(LabwareIdInputs, LabwareBarcodes)

\* Labware::find_by_barcode
LabwareFindByBarcode ==
    \E barcode \in LabwareBarcodes \cup {AbsentLabwareBarcode}, select_ok \in BOOLEAN :
        /\ result' = find_result("Labware::find_by_barcode", [barcode |-> barcode],
                                 fetch_one(SelectLabwareByBarcode(labwares, barcode), select_ok))
        /\ UNCHANGED <<location_types, locations, labwares, last_insert_rowid, returned_locations>>
        /\ UNCHANGED concurrent

Next ==
    \/ LocationTypeCreate
    \/ LocationCreate
    \/ LocationFindByBarcode
    \/ LabwareCreate
    \/ LabwareUpdate
    \/ LabwareFindByBarcode

Spec == Init /\ [][Next]_vars

----------------------------------------------------------------------------
(* First access to UNKNOWN_LOCATION from several threads *)

Threads == 1..NumThreads

\* The two places that dereference the Lazy.
UnknownCallers == {"Location::unknown", "Labware::new"}

InitUnknown ==
    /\ location_types = <<>>
    /\ locations = <<>>
    /\ labwares = <<>>
    /\ last_insert_rowid = 0
    /\ result = Outcome("init", "Ok", "None", NoValue, NoValue)
    /\ returned_locations = {}
    /\ unknown_cell = LazyNew
    /\ tasks = [t \in Threads |->
                  [pc |-> "idle", call |-> "none", seen |-> <<>>, waited |-> FALSE, calls |-> 0]]

\* The initialiser runs again although a thread is already running it.
lazy_may_initialize_unguarded(cell) == cell.state # "Complete"

\* Lazy::force on a cell that is not complete: the compare-and-swap from
\* Incomplete to Running lets one thread run the initialiser.
lazy_may_initialize(cell) == cell.state = "Incomplete"

\* A thread calls Location::unknown() or Labware::new(.., None).
UnknownCall(t) ==
    /\ tasks[t].pc = "idle"
    /\ tasks[t].calls < MaxCalls
    /\ \E call \in UnknownCallers :
          tasks' = [tasks EXCEPT ![t].pc = "force", ![t].call = call]
    /\ UNCHANGED <<tables, last_insert_rowid, result, returned_locations, unknown_cell>>

\* Deref of the Lazy: the value is there, or this thread wins the
\* initialisation, or it parks until the running initialiser is done.
LazyForce(t) ==
    /\ tasks[t].pc = "force"
    /\ IF unknown_cell.state = "Complete"
       THEN /\ tasks' = [tasks EXCEPT ![t].pc = "read"]
            /\ UNCHANGED unknown_cell
       ELSE IF lazy_may_initialize(unknown_cell)
       THEN /\ unknown_cell' = [unknown_cell EXCEPT !.state = "Running"]
            /\ tasks' = [tasks EXCEPT ![t].pc = "init"]
       ELSE /\ unknown_cell.state = "Running"
            /\ tasks' = [tasks EXCEPT ![t].pc = "wait", ![t].waited = TRUE]
            /\ UNCHANGED unknown_cell
    /\ UNCHANGED <<tables, last_insert_rowid, result, returned_locations>>

\* The closure of Lazy::new: Box::new(Location::new(..).unwrap()).
LazyInit(t) ==
    /\ tasks[t].pc = "init"
    /\ IF UNKNOWN_LOCATION.ok
       THEN /\ unknown_cell' = [state |-> "Complete",
                                value |-> <<UNKNOWN_LOCATION.value>>,
                                inits |-> unknown_cell.inits + 1]
            /\ tasks' = [tasks EXCEPT ![t].pc = "read"]
       ELSE /\ unknown_cell' = [unknown_cell EXCEPT !.state = "Poisoned"]
            /\ tasks' = [tasks EXCEPT ![t].pc = "panicked"]
    /\ UNCHANGED <<tables, last_insert_rowid, result, returned_locations>>

\* A parked thread is woken once the cell is complete.
LazyWake(t) ==
    /\ tasks[t].pc = "wait"
    /\ unknown_cell.state = "Complete"
    /\ tasks' = [tasks EXCEPT ![t].pc = "read"]
    /\ UNCHANGED <<tables, last_insert_rowid, result, returned_locations, unknown_cell>>

\* The caller receives the reference to the value in the cell.
UnknownReturn(t) ==
    /\ tasks[t].pc = "read"
    /\ tasks' = [tasks EXCEPT ![t].pc = "idle",
                              ![t].seen = unknown_cell.value,
                              ![t].calls = @ + 1]
    /\ UNCHANGED <<tables, last_insert_rowid, result, returned_locations, unknown_cell>>

NextUnknown ==
    \E t \in Threads :
        \/ UnknownCall(t)
        \/ LazyForce(t)
        \/ LazyInit(t)
        \/ LazyWake(t)
        \/ UnknownReturn(t)

SpecUnknown == InitUnknown /\ [][NextUnknown]_vars

----------------------------------------------------------------------------
(* The pure functions, applied to names and ids of all shapes *)

FnChars == {"a", "Z", "1", "_", "-", "(", " ", "\t", "+", "U+00E9", "U+00A0"}

RECURSIVE SeqsUpTo(_, _)
\* The sequences over S with at most n elements.
SeqsUpTo(S, n) ==
    IF n = 0 THEN {<<>>}
    ELSE LET shorter == SeqsUpTo(S, n - 1)
         IN  shorter \cup {Append(q, c) : q \in shorter, c \in S}

Repeat(c, n) == [i \in 1..n |-> c]

\* Names around the length limit, in one-byte and in two-byte characters.
LongNames ==
    {Repeat("a", n) : n \in (MaxNameLen - 1)..(MaxNameLen + 1)}
        \cup {Repeat(c, n) : c \in {"U+00E9", "U+00A0"},
                              n \in {MaxNameLen \div 2, MaxNameLen \div 2 + 1}}

\* The names of tests::test_barcode_sanitisation and of the documentation.
ExampleNames ==
    { <<"l", "o", "c", "a", "t", "i", "o", "n", "1">>,
      <<"l", "o", "c", "a", "t", "i", "o", "n", " ", "1">>,
      <<"L", "o", "c", "a", "t", "i", "o", "n", "1">>,
      <<" ", " ", "B", "u", "i", "l", "d", "i", "n", "g", " ", " ">> }

FnNames == SeqsUpTo(FnChars, MaxFnLen) \cup LongNames \cup ExampleNames

FnIds == {1, 5, 12, UnknownId}

FnLocations ==
    {Location_new(id, <<"a", " ", "b">>, UnknownTypeId, <<>>).value : id \in FnIds}

\* The arguments a caller is about to pass.
FnInputs ==
    {[id |-> id, name |-> name] : id \in FnIds, name \in FnNames}
        \cup {[id |-> id, barcode |-> barcode, location |-> location] :
                 id \in FnIds,
                 barcode \in LabwareBarcodes \cup {AbsentLabwareBarcode},
                 location \in {<<>>} \cup {<<l>> : l \in FnLocations}}

InitFn ==
    /\ location_types = <<>>
    /\ locations = <<>>
    /\ labwares = <<>>
    /\ last_insert_rowid = 0
    /\ result \in {Outcome("input", "Ok", "None", arg, NoValue) : arg \in FnInputs}
    /\ returned_locations = {}
    /\ unknown_cell = LazyNew
    /\ tasks = <<>>

\* Location::validate_name
ValidateName ==
    /\ result.op = "input"
    /\ "name" \in DOMAIN result.arg
    /\ result' = Outcome("Location::validate_name", "Ok", "None", result.arg,
                         validate_name(result.arg.name))
    /\ UNCHANGED <<tables, last_insert_rowid, returned_locations, concurrent>>

\* Location::new
LocationNew ==
    /\ result.op = "input"
    /\ "name" \in DOMAIN result.arg
    /\ LET constructed == Location_new(result.arg.id, result.arg.name, UnknownTypeId, <<>>)
       IN  result' = IF constructed.ok
                     THEN Outcome("Location::new", "Ok", "None", result.arg, constructed.value)
                     ELSE Outcome("Location::new", "Err", "InvalidName", result.arg, NoValue)
    /\ UNCHANGED <<tables, last_insert_rowid, returned_locations, concurrent>>

\* Location::create_barcode on a constructed location
CreateBarcode ==
    /\ result.op = "input"
    /\ "name" \in DOMAIN result.arg
    /\ LET constructed == Location_new(result.arg.id, result.arg.name, UnknownTypeId, <<>>)
       IN  /\ constructed.ok
           /\ result' = Outcome("Location::create_barcode", "Ok", "None", result.arg,
                                create_barcode(constructed.value))
    /\ UNCHANGED <<tables, last_insert_rowid, returned_locations, concurrent>>

\* Labware::new
LabwareNew ==
    /\ result.op = "input"
    /\ "location" \in DOMAIN result.arg
    /\ result' = Outcome("Labware::new", "Ok", "None", result.arg,
                         Labware_new(result.arg.id, result.arg.barcode, result.arg.location))
    /\ UNCHANGED <<tables, last_insert_rowid, returned_locations, concurrent>>

NextFn ==
    \/ ValidateName
    \/ LocationNew
    \/ CreateBarcode
    \/ LabwareNew

SpecFn == InitFn /\ [][NextFn]_vars

----------------------------------------------------------------------------
(* Concurrent Location::create, each task on its own connection to the store *)

\* A store that already holds one location type.
InitCreates ==
    /\ location_types = <<[id |-> 1, name |-> "Freezer"]>>
    /\ locations = <<>>
    /\ labwares = <<>>
    /\ last_insert_rowid = 0
    /\ result = Outcome("init", "Ok", "None", NoValue, NoValue)
    /\ returned_locations = {}
    /\ unknown_cell = LazyNew
    /\ tasks = [t \in Threads |->
                  [pc |-> "insert", name |-> <<>>, location_type_id |-> 0, rowid |-> 0,
                   status |-> "Running", value |-> NoValue, overlapped |-> FALSE]]

\* The id taken from the newest row of the table instead of the INSERT's result.
id_of_insert_newest_row(insert_rowid, rows) ==
    MaxOf({rows[i].id : i \in 1..Len(rows)})

\* let id = insert_query_result.last_insert_rowid(): the rowid in the result
\* of this task's own INSERT, whatever rows the table holds by now.
id_of_insert(insert_rowid, rows) == insert_rowid

\* The INSERT of Location::create, up to its .await
CreateInsert(t) ==
    /\ tasks[t].pc = "insert"
    /\ \E name \in Names, location_type_id \in TypeIdInputs, store_ok \in BOOLEAN :
          LET rowid == NextRowid(locations)
              row == [id |-> rowid, name |-> name, barcode |-> <<>>,
                      location_type_id |-> location_type_id]
              executed == execute(store_ok, LocationTypeFK(location_type_id))
          IN  IF executed.ok
              THEN /\ locations' = Append(locations, row)
                   /\ tasks' = [tasks EXCEPT ![t] =
                                  [@ EXCEPT !.pc = "update", !.name = name,
                                            !.location_type_id = location_type_id,
                                            !.rowid = rowid]]
              ELSE /\ tasks' = [tasks EXCEPT ![t] =
                                  [@ EXCEPT !.pc = "done", !.name = name,
                                            !.location_type_id = location_type_id,
                                            !.status = "Err"]]
                   /\ UNCHANGED locations
    /\ UNCHANGED <<location_types, labwares, last_insert_rowid, result, returned_locations,
                   unknown_cell>>

\* Another create stands between its INSERT and its UPDATE.
Overlapping(t) == \E u \in DOMAIN tasks : u # t /\ tasks[u].pc = "update"

\* The rest of Location::create: id, Location::new(..).unwrap(),
\* create_barcode and the UPDATE, up to its .await
CreateUpdate(t) ==
    /\ tasks[t].pc = "update"
    /\ \E store_ok \in BOOLEAN :
          LET id == id_of_insert(tasks[t].rowid, locations)
              constructed == Location_new(AsU32(id), tasks[t].name,
                                          tasks[t].location_type_id, <<>>)
              updated == execute(store_ok, TRUE)
          IN  IF ~constructed.ok
              THEN /\ tasks' = [tasks EXCEPT ![t] = [@ EXCEPT !.pc = "done", !.status = "Panic"]]
                   /\ UNCHANGED <<locations, returned_locations>>
              ELSE IF ~updated.ok
              THEN /\ tasks' = [tasks EXCEPT ![t] = [@ EXCEPT !.pc = "done", !.status = "Err"]]
                   /\ UNCHANGED <<locations, returned_locations>>
              ELSE LET location == create_barcode(constructed.value)
                   IN  /\ locations' = UpdateLocationBarcode(locations, location.barcode[1], id)
                       /\ tasks' = [tasks EXCEPT ![t] =
                                      [@ EXCEPT !.pc = "done", !.status = "Ok",
                                                !.value = location,
                                                !.overlapped = Overlapping(t)]]
                       /\ returned_locations' = returned_locations \cup {location}
    /\ UNCHANGED <<location_types, labwares, last_insert_rowid, result, unknown_cell>>

NextCreates ==
    \E t \in Threads :
        \/ CreateInsert(t)
        \/ CreateUpdate(t)

SpecCreates == InitCreates /\ [][NextCreates]_vars

----------------------------------------------------------------------------
(* Location::create on a table that holds UnknownId - 1 rows *)

\* Rows the table holds before the create that is given rowid UnknownId.
ReservedRows == UnknownId - 1

\* The sentinel's name in both cases, and a name the validator rejects.
ReservedNames ==
    { <<"u", "n", "k", "n", "o", "w", "n">>,
      <<"U", "N", "K", "N", "O", "W", "N">>,
      <<"a", "+">> }

\* The Location that the i-th successful Location::create("s", 1) returned.
EarlierLocation(i) == create_barcode(Location_new(AsU32(i), <<"s">>, 1, <<>>).value)

\* The store after one LocationType::create and ReservedRows successful
\* Location::create calls on one connection.
InitReserved ==
    /\ location_types = <<[id |-> 1, name |-> "Freezer"]>>
    /\ locations = [i \in 1..ReservedRows |-> EarlierLocation(i)]
    /\ labwares = <<>>
    /\ last_insert_rowid = ReservedRows
    /\ result = Outcome("Location::create", "Ok", "None",
                        [name |-> <<"s">>, location_type_id |-> 1],
                        EarlierLocation(ReservedRows))
    /\ returned_locations = {EarlierLocation(i) : i \in 1..ReservedRows}
    /\ unknown_cell = LazyNew
    /\ tasks = <<>>

ReservedLocationCreate == Location_create(ReservedRows + MaxLocations, ReservedNames)

NextReserved ==
    \/ ReservedLocationCreate
    \/ LabwareCreate

SpecReserved == InitReserved /\ [][NextReserved]_vars

----------------------------------------------------------------------------
(* Labware::update on a table of several labware rows *)

\* Rows the labwares table may hold: one more than in Spec, so that an
\* update always has a row it must leave alone.
ShelfLabwares == MaxLabwares + 1

ShelfBarcodes == {"lw-1", "lw-2"}

\* The Location the i-th successful Location::create(name, 1) returned.
ShelfLocation(i, name) == create_barcode(Location_new(AsU32(i), name, 1, <<>>).value)

\* The store after LocationType::create and two successful Location::create
\* calls on one connection.
InitShelf ==
    /\ location_types = <<[id |-> 1, name |-> "Freezer"]>>
    /\ locations = <<ShelfLocation(1, <<"a", " ", "b">>),
                     ShelfLocation(2, <<" ", "A", "-", "B", " ">>)>>
    /\ labwares = <<>>
    /\ last_insert_rowid = 2
    /\ result = Outcome("Location::create", "Ok", "None",
                        [name |-> <<" ", "A", "-", "B", " ">>, location_type_id |-> 1],
                        ShelfLocation(2, <<" ", "A", "-", "B", " ">>))
    /\ returned_locations = {ShelfLocation(1, <<"a", " ", "b">>),
                             ShelfLocation(2, <<" ", "A", "-", "B", " ">>)}
    /\ unknown_cell = LazyNew
    /\ tasks = <<>>

ShelfLabwareCreate == Labware_create(ShelfLabwares, ShelfBarcodes)

ShelfLabwareUpdate == Labware_update(1..ShelfLabwares, ShelfBarcodes)

NextShelf ==
    \/ ShelfLabwareCreate
    \/ ShelfLabwareUpdate
    \/ LabwareFindByBarcode

SpecShelf == InitShelf /\ [][NextShelf]_vars

----------------------------------------------------------------------------
(* Properties *)

LocationIds == {locations[i].id : i \in 1..Len(locations)}

FindOps == {"Location::find_by_barcode", "Labware::find_by_barcode"}

\* C1: a Location::create with a name the validator rejects issues no
\* statement: the locations table after the call is the table before it.
C1_InvalidNameNoIO ==
    [][(result'.op = "Location::create" /\ ~validate_name(result'.arg.name))
         => locations' = locations]_vars

\* C2: whenever Location::create, Labware::create or Labware::update returns
\* an error, the three tables are as they were before the call.
C2_AllOrNothing ==
    [][(result'.op \in {"Location::create", "Labware::create", "Labware::update"}
          /\ result'.status = "Err")
         => tables' = tables]_vars

C4_UpdateReturnsTheLabware ==
    (/\ result.op = "Labware::update"
     /\ result.status = "Ok"
     /\ \E i \in 1..Len(labwares) :
            /\ labwares[i].id = result.arg.id
            /\ labwares[i].barcode = result.arg.barcode)
    => /\ result.value.id = result.arg.id
       /\ result.value.barcode = result.arg.barcode
       /\ result.value.location_id = result.arg.location_id

\* C5: Location::create returning Ok(location): location.id is the rowid of
\* the inserted row, name and type are the arguments, the barcode is
\* generate(name, id), and the stored row carries the same non-null barcode.
C5_CreateReturnsStoredLocation ==
    (result.op = "Location::create" /\ result.status = "Ok")
    => LET location == result.value
           row == locations[Len(locations)]
       IN  /\ locations # <<>>
           /\ location.id = row.id
           /\ location.id = last_insert_rowid
           /\ location.name = result.arg.name
           /\ location.location_type_id = result.arg.location_type_id
           /\ location.barcode = <<barcode_text(result.arg.name, location.id)>>
           /\ row.barcode # <<>>
           /\ row = location

\* C5 witness: a second location has just been created successfully.
C5_Witness ==
    /\ result.op = "Location::create"
    /\ result.status = "Ok"
    /\ result.value.id = 2

\* C6: a lookup by the barcode of a location that Location::create returned
\* (the store executing the query) succeeds and yields that very entity.
C6_RoundTrip ==
    (result.op = "Location::find_by_barcode" /\ result.cause # "Io")
    => \A created \in returned_locations :
          created.barcode = <<result.arg.barcode>>
          => (result.status = "Ok" /\ result.value = created)

\* C6 witness: the first of two created locations has just been found.
C6_Witness ==
    /\ result.op = "Location::find_by_barcode"
    /\ result.status = "Ok"
    /\ Cardinality(returned_locations) = 2
    /\ result.value \in returned_locations
    /\ result.value.id = 1

\* C7: no two distinct rows of locations carry the same non-null barcode.
C7_BarcodesUnique ==
    \A i, j \in 1..Len(locations) :
        (i # j /\ locations[i].barcode # <<>>) => locations[i].barcode # locations[j].barcode

\* C7 witness: two rows with barcodes whose names differ by case, by
\* surrounding whitespace and by space versus hyphen.
C7_Witness ==
    \E i, j \in 1..Len(locations) :
        /\ locations[i].name = <<"a", " ", "b">>
        /\ locations[j].name = <<" ", "A", "-", "B", " ">>
        /\ locations[i].barcode # <<>>
        /\ locations[j].barcode # <<>>

\* C8: a lookup with a barcode that no stored row carries returns
\* NotFoundError, never the store's own error, and changes no table.
C8_AbsentBarcodeNotFound ==
    [][/\ (/\ result'.op = "Location::find_by_barcode"
            /\ SelectLocationByBarcode(locations, result'.arg.barcode) = <<>>)
           => (result'.status = "NotFoundError" /\ tables' = tables)
       /\ (/\ result'.op = "Labware::find_by_barcode"
            /\ SelectLabwareByBarcode(labwares, result'.arg.barcode) = <<>>)
           => (result'.status = "NotFoundError" /\ tables' = tables)]_vars

\* C8 witness: a lookup on a non-empty table found no row.
C8_Witness ==
    /\ result.op = "Location::find_by_barcode"
    /\ result.status = "NotFoundError"
    /\ result.cause = "RowNotFound"
    /\ locations # <<>>

\* C9: a lookup whose query fails for a reason other than zero rows is not
\* reported as NotFoundError.
C9_OnlyZeroRowsIsNotFound ==
    (result.op \in FindOps /\ result.cause = "Io") => result.status # "NotFoundError"

\* C10: Labware::create with a location_id that matches no locations row
\* returns an error, never Ok.
C10_MissingLocationIsError ==
    (result.op = "Labware::create" /\ result.arg.location_id \notin LocationIds)
    => result.status = "Err"

\* C10 witness: a create naming a missing location was refused while other
\* locations exist.
C10_Witness ==
    /\ result.op = "Labware::create"
    /\ result.arg.location_id \notin LocationIds
    /\ result.status = "Err"
    /\ locations # <<>>

\* The sentinel as the source spells it.
Sentinel ==
    [id |-> 999,
     name |-> <<"U", "N", "K", "N", "O", "W", "N">>,
     barcode |-> <<<<"l", "w", "-", "u", "n", "k", "n", "o", "w", "n", "-", "9", "9", "9">>>>,
     location_type_id |-> 1]

\* C11: the sentinel is initialised at most once, the initialiser never
\* panics, a complete cell holds (id 999, "UNKNOWN", "lw-unknown-999", type 1)
\* and keeps it, and every caller, racing or later, has received that value.
C11_UnknownInitialisedOnce ==
    /\ unknown_cell.inits <= 1
    /\ unknown_cell.state \in {"Incomplete", "Running", "Complete"}
    /\ (unknown_cell.state = "Complete") = (unknown_cell.inits = 1)
    /\ unknown_cell.state = "Complete" => unknown_cell.value = <<Sentinel>>
    /\ \A t \in DOMAIN tasks :
          /\ tasks[t].calls > 0 => tasks[t].seen = <<Sentinel>>
          /\ tasks[t].pc = "read" => unknown_cell.state = "Complete"

\* C11 witness: a thread that found the initialiser running and parked has
\* received the value, and so has the thread that ran the initialiser.
C11_Witness ==
    /\ \E t \in DOMAIN tasks : tasks[t].waited /\ tasks[t].calls > 0
    /\ \E t \in DOMAIN tasks : ~tasks[t].waited /\ tasks[t].calls = MaxCalls

\* What the statement of the name rule says: 1 to 60 characters, each one of
\* A-Z, a-z, 0-9, underscore, hyphen, whitespace, "(" or ")".
StatedNameRule(name) ==
    /\ Len(name) >= 1
    /\ Len(name) <= 60
    /\ \A i \in 1..Len(name) :
          name[i] \in {Lower[k] : k \in 1..Len(Lower)} \cup {Upper[k] : k \in 1..Len(Upper)}
                        \cup Digits \cup {"_", "-", "(", ")"} \cup Whitespace

\* C12: validate(name) is true exactly for the names of 1 to 60 characters
\* made of A-Z, a-z, 0-9, underscore, hyphen, whitespace and parentheses, and
\* Location construction fails exactly when validate(name) is false.
C12_NameRule ==
    /\ result.op = "Location::validate_name"
         => (result.value = StatedNameRule(result.arg.name))
    /\ result.op = "Location::new"
         => ((result.status = "Err" /\ result.cause = "InvalidName")
                = ~StatedNameRule(result.arg.name))

\* The slug read off the name by position: from the first to the last
\* character that is not whitespace, spaces as hyphens, letters in lower case.
StatedSlug(name) ==
    LET kept == {i \in 1..Len(name) : name[i] \notin Whitespace}
    IN  IF kept = {} THEN <<>>
        ELSE LET first == CHOOSE i \in kept : \A j \in kept : i <= j
                 last == CHOOSE i \in kept : \A j \in kept : i >= j
             IN  [k \in 1..(last - first + 1) |->
                    LET c == name[first + k - 1]
                    IN  IF c = " " THEN "-" ELSE to_lowercase_char(c)]

\* C13: generate(name, id) is "lw-" + slug + "-" + id with slug the name
\* trimmed, spaces replaced by hyphens, lower-cased; generate("  Building  ", 5)
\* is "lw-building-5" and generate("location 1", 1) is "lw-location-1-1".
C13_BarcodeFormat ==
    result.op = "Location::create_barcode"
    => LET name == result.arg.name
           id == result.arg.id
           barcode == result.value.barcode
       IN  /\ barcode = <<(<<"l", "w", "-">> \o StatedSlug(name) \o <<"-">> \o Decimal(id))>>
           /\ result.value.id = id
           /\ result.value.name = name
           /\ (name = <<" ", " ", "B", "u", "i", "l", "d", "i", "n", "g", " ", " ">> /\ id = 5)
                => barcode = <<(<<"l", "w", "-", "b", "u", "i", "l", "d", "i", "n", "g", "-", "5">>)>>
           /\ (name = <<"l", "o", "c", "a", "t", "i", "o", "n", " ", "1">> /\ id = 1)
                => barcode = <<(<<"l", "w", "-", "l", "o", "c", "a", "t", "i", "o", "n",
                                  "-", "1", "-", "1">>)>>
           /\ (name = <<"L", "o", "c", "a", "t", "i", "o", "n", "1">> /\ id = 12)
                => barcode = <<(<<"l", "w", "-", "l", "o", "c", "a", "t", "i", "o", "n",
                                  "1", "-", "1", "2">>)>>

\* C13 witness: the barcode of "  Building  " with id 5 has been generated.
C13_Witness ==
    /\ result.op = "Location::create_barcode"
    /\ result.arg.name = <<" ", " ", "B", "u", "i", "l", "d", "i", "n", "g", " ", " ">>
    /\ result.arg.id = 5

\* C14: Labware::new always yields a labware with the given id and barcode,
\* located at 999 when no location is given and at the given location's id
\* otherwise.
C14_LabwareNew ==
    result.op = "Labware::new"
    => /\ result.status = "Ok"
       /\ result.value.id = result.arg.id
       /\ result.value.barcode = result.arg.barcode
       /\ result.value.location_id =
             IF result.arg.location = <<>> THEN 999 ELSE result.arg.location[1].id

\* C14 witness: a labware was constructed with a location other than the
\* sentinel.
C14_Witness ==
    /\ result.op = "Labware::new"
    /\ result.arg.location # <<>>
    /\ result.value.location_id = 5

C16_UnknownIdentityReserved ==
    /\ \A i \in 1..Len(locations) :
          /\ locations[i].id # UNKNOWN_LOCATION.value.id
          /\ locations[i].barcode # UNKNOWN_LOCATION.value.barcode
    /\ \A location \in returned_locations :
          /\ location.id # UNKNOWN_LOCATION.value.id
          /\ location.barcode # UNKNOWN_LOCATION.value.barcode
    /\ \A i \in 1..Len(labwares) :
          labwares[i].location_id = UNKNOWN_LOCATION.value.id
              => ~\E j \in 1..Len(locations) : locations[j].id = labwares[i].location_id

\* C17: a Labware::update step leaves location_types and locations as they
\* were, inserts and deletes no labwares row, keeps every row's id and
\* barcode, and leaves every row whose id is not labware.id unchanged.
C17_UpdateFrame ==
    [][result'.op = "Labware::update" =>
          /\ location_types' = location_types
          /\ locations' = locations
          /\ Len(labwares') = Len(labwares)
          /\ \A i \in 1..Len(labwares) :
                /\ labwares'[i].id = labwares[i].id
                /\ labwares'[i].barcode = labwares[i].barcode
                /\ labwares[i].id # result'.arg.id => labwares'[i] = labwares[i]]_vars

\* C17 witness: an update has succeeded on a table of two rows; the row it
\* names has the new location_id and another row has a different one.
C17_Witness ==
    /\ result.op = "Labware::update"
    /\ result.status = "Ok"
    /\ Len(labwares) >= 2
    /\ \E i, j \in 1..Len(labwares) :
          /\ labwares[i].id = result.arg.id
          /\ labwares[i].location_id = result.arg.location_id
          /\ labwares[j].id # result.arg.id
          /\ labwares[j].location_id # result.arg.location_id

====
